---- MODULE Spec2Model ----
(***************************************************************************)
(* BasePage (common/base_page.py) over a Selenium driver session.          *)
(*                                                                         *)
(* Every BasePage method is synchronous and runs to completion, so each    *)
(* method is one action.  The driver is the environment: what it answers   *)
(* to each command (element present or absent at a poll, a command         *)
(* raising, the screenshot being written or not) is drawn with \E.         *)
(* The test case that calls BasePage is the only process; pc is its        *)
(* position: "idle" before a call, "returned" while it holds the result.   *)
(***************************************************************************)
EXTENDS Integers, Sequences, FiniteSets, TLC

\* ------------------------------------------------------------- bounds
MaxCalls == 2     \* calls of BasePage methods in one run
MaxTick == 2      \* latest poll instant at which the page may change
MaxWindows == 3   \* open browser windows

\* ---------------------------------------------------------- constants
DefaultTimeout == 10   \* BasePage.__init__(..., timeout: int = 10)
PresenceDefault == 1   \* is_element_present: timeout or 1
PollsPerUnit == 2      \* WebDriverWait polls every 0.5 s
None == -1             \* Optional[int] = None

VARIABLES
    self_timeout,   \* BasePage.timeout
    windows,        \* driver.window_handles: titles in handle order
    active,         \* driver.current_window_handle (index into windows)
    frame,          \* the driver's frame context
    artifacts,      \* files under ../data/result_pics/
    ncalls,         \* calls made so far; also the source of fresh handles
    pc,             \* the caller's position
    call            \* the call that returned last, with what it did

vars == <<self_timeout, windows, active, frame, artifacts, ncalls, pc, call>>

\* ------------------------------------------------------------ locators
\* Mutant: the 'plink' entry is missing.
LOCATOR_MAP_without_plink ==
    ("css" :> "css selector") @@ ("id" :> "id") @@ ("name" :> "name") @@
    ("xpath" :> "xpath") @@ ("link" :> "link text") @@
    ("tag" :> "tag name") @@ ("class" :> "class name")

\* By.* as selenium defines them, keyed as LOCATOR_MAP keys them.
LOCATOR_MAP ==
    ("css" :> "css selector") @@ ("id" :> "id") @@ ("name" :> "name") @@
    ("xpath" :> "xpath") @@ ("link" :> "link text") @@
    ("plink" :> "partial link text") @@ ("tag" :> "tag name") @@
    ("class" :> "class name")

\* ------------------------------------------------------ faults, results
NoExc == [kind |-> "", site |-> ""]
Exc(k, s) == [kind |-> k, site |-> s]

\* A driver command: its name, its argument, the element handle it is
\* sent to (0: none).
Cmd(c, a, h) == [cmd |-> c, a |-> a, h |-> h]

\* A lookup by locator, (By, value).
Lookup(c, by, value) == Cmd(c, by \o "=" \o value, 0)

\* `a or b` on Optional[int]: None and 0 are both falsy.
PyOr(a, b) == IF a = None \/ a = 0 THEN b ELSE a

Min(a, b) == IF a <= b THEN a ELSE b

\* ----------------------------------------------------- WebDriverWait
\* until() polls once before it looks at the clock, then once per
\* poll interval while the clock has not passed the timeout.
NumPolls(T) == IF T = 0 THEN 1 ELSE T * PollsPerUnit

\* A moment later than every wait's window.
Never == NumPolls(DefaultTimeout) + MaxTick + 1

NoFault == [at |-> Never, kind |-> ""]

\* WebDriverWait(driver, T).until(condition): the condition turns true at
\* poll readyAt; the driver raises fault.kind at poll fault.at.
until(T, readyAt, fault, cmd) ==
    LET n == NumPolls(T)
        s == Min(readyAt, fault.at)
        polled(k) == [i \in 1..k |-> cmd]
    IN  IF s >= n
        THEN [status |-> "raise", log |-> polled(n), faults |-> <<>>,
              exc |-> Exc("TimeoutException", "WebDriverWait")]
        ELSE IF fault.at = s
        THEN [status |-> "raise", log |-> polled(s + 1),
              faults |-> <<Exc(fault.kind, cmd.cmd)>>,
              exc |-> Exc(fault.kind, cmd.cmd)]
        ELSE [status |-> "value", log |-> polled(s + 1), faults |-> <<>>,
              exc |-> NoExc]

\* ------------------------------------------------------ save_screenshot
ScreenshotPath(name) == "../data/result_pics/" \o name \o ".png"

\* shot: "ok" (file written), "false" (the driver could not write the file
\* and returned False), or the kind of the fault the driver raises.
save_screenshot(name, shot) ==
    LET c == Cmd("save_screenshot", ScreenshotPath(name), 0)
    IN  IF shot \in {"ok", "false"}
        THEN [outcome |-> "return", exc |-> NoExc, log |-> <<c>>,
              faults |-> <<>>,
              written |-> IF shot = "ok" THEN {ScreenshotPath(name)} ELSE {}]
        ELSE [outcome |-> "raise", exc |-> Exc(shot, "save_screenshot"),
              log |-> <<c>>, faults |-> <<Exc(shot, "save_screenshot")>>,
              written |-> {}]

\* --------------------------------------------------------- find_element
ArtifactName(type, value) == "element_not_found_" \o type \o "_" \o value

\* What find_element did.  resolve: "unsupported" | "found" | "timeout" |
\* "fault", after the branch of find_element that ended the call.
Found(outcome, handle, resolve, exc, log, faults, written) ==
    [outcome |-> outcome, handle |-> handle, resolve |-> resolve,
     exc |-> exc, log |-> log, faults |-> faults, written |-> written]

\* except TimeoutException: log, save_screenshot(...), raise.  A fault
\* raised by save_screenshot leaves the handler in place of the timeout.
on_timeout(w, s) ==
    Found("raise", 0, "timeout",
          IF s.outcome = "raise" THEN s.exc ELSE w.exc,
          w.log \o s.log, w.faults \o s.faults, s.written)

\* Mutant: the screenshot is taken in the handler of every exception.
wait_ended_any_fault_shoots(w, type, value, shot, h) ==
    IF w.status = "value"
    THEN Found("return", h, "found", NoExc, w.log, w.faults, {})
    ELSE IF w.exc.kind = "TimeoutException"
    THEN on_timeout(w, save_screenshot(ArtifactName(type, value), shot))
    ELSE [on_timeout(w, save_screenshot(ArtifactName(type, value), "ok"))
             EXCEPT !.resolve = "fault"]

\* The try block around the wait, w being how the wait ended.
wait_ended(w, type, value, shot, h) ==
    IF w.status = "value"
    THEN Found("return", h, "found", NoExc, w.log, w.faults, {})
    ELSE IF w.exc.kind = "TimeoutException"
    THEN on_timeout(w, save_screenshot(ArtifactName(type, value), shot))
    ELSE Found("raise", 0, "fault", w.exc, w.log, w.faults, {})

\* env: the driver's answers; h: the handle the driver hands out if the
\* element is found.
find_element(st, type, value, timeout, env, h) ==
    IF type \notin DOMAIN LOCATOR_MAP
    THEN Found("raise", 0, "unsupported", Exc("ValueError", "find_element"),
               <<>>, <<>>, {})
    ELSE wait_ended(until(PyOr(timeout, st), env.appearAt, env.pollFault,
                          Lookup("find_element", LOCATOR_MAP[type], value)),
                    type, value, env.shot, h)

\* ------------------------------------------------- the facade's methods
\* What a method did: how it ended (outcome, ret, exc), the handle its
\* find_element obtained or the exception it raised (fexc), how the two
\* waits ended (clickable: "ready", "timeout" when the wait ran out,
\* "fault" when the driver raised), the driver commands it issued in order
\* (log), the faults the driver raised in order (faults), and the files it
\* wrote.
Result(f, outcome, ret, clickable, exc, log, faults) ==
    [outcome |-> outcome, ret |-> ret, handle |-> f.handle,
     resolve |-> f.resolve, fexc |-> f.exc, clickable |-> clickable,
     exc |-> exc, log |-> log, faults |-> faults, written |-> f.written]

\* A method whose find_element raised: every handler logs and re-raises.
Reraise(f) == Result(f, "raise", "None", "none", f.exc, f.log, f.faults)

\* One driver command on an element; out is "ok" or the fault's kind.
ElementAction(c, a, h, out) ==
    [ok |-> out = "ok", log |-> <<Cmd(c, a, h)>>,
     faults |-> IF out = "ok" THEN <<>> ELSE <<Exc(out, c)>>,
     exc |-> IF out = "ok" THEN NoExc ELSE Exc(out, c)]

\* The method ends with its last driver command d, after the commands in
\* log: it returns ret if d succeeded and raises d's fault if not.
EndWith(f, d, ret, clickable, log) ==
    Result(f, IF d.ok THEN "return" ELSE "raise",
           IF d.ok THEN ret ELSE "None", clickable, d.exc,
           log \o d.log, f.faults \o d.faults)

\* A caller using find_element itself (test_baidu_search).
found_element(f) ==
    IF f.outcome = "raise" THEN Reraise(f)
    ELSE Result(f, "return", "element", "none", NoExc, f.log, f.faults)

\* Mutant: the click is sent whether or not the element became clickable.
clickable_ended_clicks_anyway(f, w, act) ==
    EndWith(f, ElementAction("click", "", f.handle, act), "None",
            IF w.status = "value" THEN "ready"
            ELSE IF w.faults = <<>> THEN "timeout"
            ELSE "fault",
            f.log \o w.log)

\* click_element after the clickable wait ended as w.
clickable_ended(f, w, act) ==
    IF w.status = "raise"
    THEN Result(f, "raise", "None",
                IF w.faults = <<>> THEN "timeout" ELSE "fault",
                w.exc, f.log \o w.log, f.faults \o w.faults)
    ELSE EndWith(f, ElementAction("click", "", f.handle, act), "None",
                 "ready", f.log \o w.log)

\* click_element after find_element ended as f.
click_found(f, st, type, value, timeout, env) ==
    IF f.outcome = "raise" THEN Reraise(f)
    ELSE clickable_ended(f,
            until(PyOr(timeout, st), env.readyAt, env.readyFault,
                  Lookup("element_to_be_clickable", LOCATOR_MAP[type], value)),
            env.act1)

click_element(st, type, value, timeout, env, h) ==
    click_found(find_element(st, type, value, timeout, env, h),
                st, type, value, timeout, env)

\* input_text after element.clear() ended as c.
cleared(f, c, text, out) ==
    IF ~c.ok
    THEN Result(f, "raise", "None", "none", c.exc, f.log \o c.log,
                f.faults \o c.faults)
    ELSE EndWith(f, ElementAction("send_keys", text, f.handle, out), "None",
                 "none", f.log \o c.log)

\* Mutant: the text is sent before the element is cleared.
input_found_sends_first(f, text, env) ==
    IF f.outcome = "raise" THEN Reraise(f)
    ELSE Result(f, "return", "None", "none", NoExc,
                f.log \o <<Cmd("send_keys", text, f.handle),
                           Cmd("clear", "", f.handle)>>,
                f.faults)

input_found(f, text, env) ==
    IF f.outcome = "raise" THEN Reraise(f)
    ELSE cleared(f, ElementAction("clear", "", f.handle, env.act1), text,
                 env.act2)

input_text(st, type, value, text, timeout, env, h) ==
    input_found(find_element(st, type, value, timeout, env, h), text, env)

\* ActionChains(driver).move_to_element(element).pause(1).perform()
hover_found(f, env) ==
    IF f.outcome = "raise" THEN Reraise(f)
    ELSE EndWith(f, ElementAction("perform", "move_to_element,pause(1)",
                                  f.handle, env.act1),
                 "None", "none", f.log)

hover_element(st, type, value, timeout, env, h) ==
    hover_found(find_element(st, type, value, timeout, env, h), env)

text_found(f, env) ==
    IF f.outcome = "raise" THEN Reraise(f)
    ELSE EndWith(f, ElementAction("text", "", f.handle, env.act1),
                 env.text, "none", f.log)

get_element_text(st, type, value, timeout, env, h) ==
    text_found(find_element(st, type, value, timeout, env, h), env)

\* Mutant: except Exception: return False.
present_found_catches_all(f) ==
    IF f.outcome = "return"
    THEN Result(f, "return", "True", "none", NoExc, f.log, f.faults)
    ELSE Result(f, "return", "False", "none", NoExc, f.log, f.faults)

\* try: find_element(...); return True
\* except (TimeoutException, NoSuchElementException): return False
present_found(f) ==
    IF f.outcome = "return"
    THEN Result(f, "return", "True", "none", NoExc, f.log, f.faults)
    ELSE IF f.exc.kind \in {"TimeoutException", "NoSuchElementException"}
    THEN Result(f, "return", "False", "none", NoExc, f.log, f.faults)
    ELSE Reraise(f)

is_element_present(st, type, value, timeout, env, h) ==
    present_found(find_element(st, type, value,
                               PyOr(timeout, PresenceDefault), env, h))

\* ------------------------------------------ methods without a locator
NoFind == [handle |-> 0, resolve |-> "none", exc |-> NoExc, written |-> {}]

\* One driver command that either succeeds or raises; out as above.
DriverCall(c, a, out) ==
    LET d == ElementAction(c, a, 0, out)
    IN  Result(NoFind, IF d.ok THEN "return" ELSE "raise", "None", "none",
               d.exc, d.log, d.faults)

open(url, out) == DriverCall("get", url, out)

switch_to_frame(identifier, out) == DriverCall("switch_to.frame", identifier, out)

clear_cookies(out) == DriverCall("delete_all_cookies", "", out)

SaveScreenshot(name, shot) ==
    LET s == save_screenshot(name, shot)
    IN  [Result(NoFind, s.outcome, "None", "none", s.exc, s.log, s.faults)
            EXCEPT !.written = s.written]

\* switch_to_window.  The driver raises plan.kind at the plan.at-th
\* command of the call (0: at none); every command is logged, so the
\* number of the next command is Len(log) + 1.
WinEnd(outcome, exc, act, log, faulted) ==
    [outcome |-> outcome, exc |-> exc, active |-> act, log |-> log,
     faults |-> IF faulted THEN <<exc>> ELSE <<>>]

\* Mutant: ValueError is raised without switching back.
RECURSIVE window_loop_no_restore(_, _, _, _, _, _, _)
window_loop_no_restore(i, title, wins, act, orig, plan, log) ==
    LET n == Len(log) + 1
        sw(h) == Cmd("switch_to.window", "", h)
        ti == Cmd("title", "", 0)
    IN  IF i > Len(wins)
        THEN WinEnd("raise", Exc("ValueError", "switch_to_window"), act,
                    log, FALSE)
        ELSE IF plan.at = n
        THEN WinEnd("raise", Exc(plan.kind, "switch_to.window"), act,
                    Append(log, sw(i)), TRUE)
        ELSE IF plan.at = n + 1
        THEN WinEnd("raise", Exc(plan.kind, "title"), i,
                    log \o <<sw(i), ti>>, TRUE)
        ELSE IF wins[i] = title
        THEN WinEnd("return", NoExc, i, log \o <<sw(i), ti>>, FALSE)
        ELSE window_loop_no_restore(i + 1, title, wins, i, orig, plan,
                                    log \o <<sw(i), ti>>)

\* Mutant: the loop has no return, so the last matching window stays active.
RECURSIVE window_loop_last_match(_, _, _, _, _, _, _)
window_loop_last_match(i, title, wins, act, orig, plan, log) ==
    LET n == Len(log) + 1
        sw(h) == Cmd("switch_to.window", "", h)
        ti == Cmd("title", "", 0)
        matched == \E j \in 1..Len(wins) : wins[j] = title
        last == CHOOSE j \in 0..Len(wins) :
                    /\ j > 0 => wins[j] = title
                    /\ \A k \in (j + 1)..Len(wins) : wins[k] # title
                    /\ j = 0 => ~matched
    IN  IF i > Len(wins)
        THEN IF matched
             THEN WinEnd("return", NoExc, last, log, FALSE)
             ELSE IF plan.at = n
             THEN WinEnd("raise", Exc(plan.kind, "switch_to.window"), act,
                         Append(log, sw(orig)), TRUE)
             ELSE WinEnd("raise", Exc("ValueError", "switch_to_window"),
                         orig, Append(log, sw(orig)), FALSE)
        ELSE IF plan.at = n
        THEN WinEnd("raise", Exc(plan.kind, "switch_to.window"), act,
                    Append(log, sw(i)), TRUE)
        ELSE IF plan.at = n + 1
        THEN WinEnd("raise", Exc(plan.kind, "title"), i,
                    log \o <<sw(i), ti>>, TRUE)
        ELSE window_loop_last_match(i + 1, title, wins, i, orig, plan,
                                    log \o <<sw(i), ti>>)

RECURSIVE window_loop(_, _, _, _, _, _, _)
window_loop(i, title, wins, act, orig, plan, log) ==
    LET n == Len(log) + 1
        sw(h) == Cmd("switch_to.window", "", h)
        ti == Cmd("title", "", 0)
    IN  IF i > Len(wins)
        THEN \* no handle matched: restore, then raise ValueError
             IF plan.at = n
             THEN WinEnd("raise", Exc(plan.kind, "switch_to.window"), act,
                         Append(log, sw(orig)), TRUE)
             ELSE WinEnd("raise", Exc("ValueError", "switch_to_window"), orig,
                         Append(log, sw(orig)), FALSE)
        ELSE IF plan.at = n
        THEN WinEnd("raise", Exc(plan.kind, "switch_to.window"), act,
                    Append(log, sw(i)), TRUE)
        ELSE IF plan.at = n + 1
        THEN WinEnd("raise", Exc(plan.kind, "title"), i,
                    log \o <<sw(i), ti>>, TRUE)
        ELSE IF wins[i] = title
        THEN WinEnd("return", NoExc, i, log \o <<sw(i), ti>>, FALSE)
        ELSE window_loop(i + 1, title, wins, i, orig, plan,
                         log \o <<sw(i), ti>>)

switch_to_window(title, wins, act, plan) ==
    LET cur == Cmd("current_window_handle", "", 0)
        hs == Cmd("window_handles", "", 0)
    IN  IF plan.at = 1
        THEN WinEnd("raise", Exc(plan.kind, "current_window_handle"), act,
                    <<cur>>, TRUE)
        ELSE IF plan.at = 2
        THEN WinEnd("raise", Exc(plan.kind, "window_handles"), act,
                    <<cur, hs>>, TRUE)
        ELSE window_loop(1, title, wins, act, act, plan, <<cur, hs>>)

\* ------------------------------------------------------------- inputs
Types == {"id", "name", "tag", "class", "link", "plink", "css", "xpath",
          "bogus", "ID"}
Locators == {<<t, "kw">> : t \in Types} \cup {<<"id", "missing-id">>}
TimeoutArgs == {None, 0, 1}
CtorTimeouts == {1, DefaultTimeout}
Texts == {" a b "}
Titles == {"A", "B"}
TitleArgs == Titles \cup {"NoSuchTitle"}
Urls == {"https://www.baidu.com"}
Frames == {"iframe0"}
ShotNames == {"home", ArtifactName("id", "kw")}

Moments == (0..MaxTick) \cup {Never}
PollFaultKinds == {"WebDriverException", "TimeoutException"}
PollPlans == {NoFault} \cup
             {[at |-> t, kind |-> k] : t \in 0..1, k \in PollFaultKinds}
ReadyPlans == {NoFault} \cup {[at |-> 0, kind |-> k] : k \in PollFaultKinds}
Shots == {"ok", "false", "WebDriverException", "TimeoutException",
          "NoSuchElementException"}
ActOutcomes == {"ok", "WebDriverException", "ElementNotInteractableException"}
DriverOutcomes == {"ok", "WebDriverException"}
WindowPlans == {[at |-> k, kind |-> "WebDriverException"] :
                    k \in 0..(2 * MaxWindows + 3)}

BaseEnv == [appearAt |-> 0, pollFault |-> NoFault, shot |-> "ok",
            readyAt |-> 0, readyFault |-> NoFault, act1 |-> "ok",
            act2 |-> "ok", text |-> ""]

ElementOps == {"find_element", "click_element", "input_text",
               "hover_element", "get_element_text", "is_element_present"}

Run(op, st, type, value, text, timeout, env, h) ==
    CASE op = "find_element" ->
            found_element(find_element(st, type, value, timeout, env, h))
      [] op = "click_element" -> click_element(st, type, value, timeout, env, h)
      [] op = "input_text" -> input_text(st, type, value, text, timeout, env, h)
      [] op = "hover_element" -> hover_element(st, type, value, timeout, env, h)
      [] op = "get_element_text" ->
            get_element_text(st, type, value, timeout, env, h)
      [] op = "is_element_present" ->
            is_element_present(st, type, value, timeout, env, h)

\* The driver's answers that a call can consume, drawn as far as the call
\* gets: the screenshot's outcome when the presence wait times out; when
\* the element is found, the outcome of the next command or wait (Second),
\* and when that succeeds the outcome of the last command (Third).
Second(op, e) ==
    CASE op = "click_element" ->
            {[e EXCEPT !.readyAt = r, !.readyFault = rf] :
                r \in Moments, rf \in ReadyPlans}
      [] op \in {"input_text", "hover_element"} ->
            {[e EXCEPT !.act1 = a] : a \in ActOutcomes}
      [] op = "get_element_text" ->
            {[e EXCEPT !.act1 = a, !.text = "hello"] : a \in ActOutcomes}
      [] OTHER -> {e}

Third(op, e, r) ==
    CASE op = "click_element" /\ r.clickable = "ready" ->
            {[e EXCEPT !.act1 = a] : a \in ActOutcomes}
      [] op = "input_text" /\ r.outcome = "return" ->
            {[e EXCEPT !.act2 = a] : a \in ActOutcomes}
      [] OTHER -> {e}

Consumed(op, e, resolve) ==
    CASE resolve = "timeout" -> {[e EXCEPT !.shot = s] : s \in Shots}
      [] resolve = "found" -> Second(op, e)
      [] OTHER -> {e}

\* The driver raises at a poll no later than the one that finds the element.
FirstAnswers ==
    UNION { {[BaseEnv EXCEPT !.appearAt = a, !.pollFault = pf] :
                pf \in {q \in PollPlans : q = NoFault \/ q.at <= a}}
          : a \in Moments }

Envs(op, st, type, value, text, timeout) ==
    UNION { UNION { Third(op, e2, Run(op, st, type, value, text, timeout,
                                      e2, 1))
                  : e2 \in Consumed(op, e1,
                          Run(op, st, type, value, text, timeout, e1,
                              1).resolve) }
          : e1 \in FirstAnswers }

\* -------------------------------------------------------------- state
Idle == [op |-> "none"]

Init ==
    /\ self_timeout \in CtorTimeouts
    /\ windows = <<"A", "B">>
    /\ active = 1
    /\ frame = "top"
    /\ artifacts = {}
    /\ ncalls = 0
    /\ pc = "idle"
    /\ call = Idle

Record(op, type, value, text, timeout, title, appearAt, orig, r) ==
    [op |-> op, type |-> type, value |-> value, text |-> text,
     timeout |-> timeout, title |-> title, appearAt |-> appearAt,
     orig |-> orig, outcome |-> r.outcome, ret |-> r.ret,
     handle |-> r.handle, resolve |-> r.resolve, fexc |-> r.fexc,
     clickable |-> r.clickable,
     exc |-> r.exc, log |-> r.log, faults |-> r.faults,
     written |-> r.written]

CanCall == pc = "idle" /\ ncalls < MaxCalls

Called == pc' = "returned" /\ ncalls' = ncalls + 1

TextsFor(op) == IF op = "input_text" THEN Texts ELSE {""}

\* The call of op returned to the caller as r.  appearAt, the poll at which
\* the element was first present, is kept for find_element.
Returned(op, loc, text, t, appearAt, r) ==
    /\ call' = Record(op, loc[1], loc[2], text, t, "", appearAt, active, r)
    /\ artifacts' = artifacts \cup r.written

FindElement ==
    /\ CanCall
    /\ \E loc \in Locators, t \in TimeoutArgs, text \in TextsFor("find_element") :
       \E env \in Envs("find_element", self_timeout, loc[1], loc[2], text, t) :
         Returned("find_element", loc, text, t, env.appearAt,
                  Run("find_element", self_timeout, loc[1], loc[2], text, t, env,
                      ncalls + 1))
    /\ Called
    /\ UNCHANGED <<self_timeout, windows, active, frame>>

ClickElement ==
    /\ CanCall
    /\ \E loc \in Locators, t \in TimeoutArgs, text \in TextsFor("click_element") :
       \E env \in Envs("click_element", self_timeout, loc[1], loc[2], text, t) :
         Returned("click_element", loc, text, t, 0,
                  Run("click_element", self_timeout, loc[1], loc[2], text, t, env,
                      ncalls + 1))
    /\ Called
    /\ UNCHANGED <<self_timeout, windows, active, frame>>

InputText ==
    /\ CanCall
    /\ \E loc \in Locators, t \in TimeoutArgs, text \in TextsFor("input_text") :
       \E env \in Envs("input_text", self_timeout, loc[1], loc[2], text, t) :
         Returned("input_text", loc, text, t, 0,
                  Run("input_text", self_timeout, loc[1], loc[2], text, t, env,
                      ncalls + 1))
    /\ Called
    /\ UNCHANGED <<self_timeout, windows, active, frame>>

HoverElement ==
    /\ CanCall
    /\ \E loc \in Locators, t \in TimeoutArgs, text \in TextsFor("hover_element") :
       \E env \in Envs("hover_element", self_timeout, loc[1], loc[2], text, t) :
         Returned("hover_element", loc, text, t, 0,
                  Run("hover_element", self_timeout, loc[1], loc[2], text, t, env,
                      ncalls + 1))
    /\ Called
    /\ UNCHANGED <<self_timeout, windows, active, frame>>

GetElementText ==
    /\ CanCall
    /\ \E loc \in Locators, t \in TimeoutArgs, text \in TextsFor("get_element_text") :
       \E env \in Envs("get_element_text", self_timeout, loc[1], loc[2], text, t) :
         Returned("get_element_text", loc, text, t, 0,
                  Run("get_element_text", self_timeout, loc[1], loc[2], text, t, env,
                      ncalls + 1))
    /\ Called
    /\ UNCHANGED <<self_timeout, windows, active, frame>>

IsElementPresent ==
    /\ CanCall
    /\ \E loc \in Locators, t \in TimeoutArgs, text \in TextsFor("is_element_present") :
       \E env \in Envs("is_element_present", self_timeout, loc[1], loc[2], text, t) :
         Returned("is_element_present", loc, text, t, 0,
                  Run("is_element_present", self_timeout, loc[1], loc[2], text, t, env,
                      ncalls + 1))
    /\ Called
    /\ UNCHANGED <<self_timeout, windows, active, frame>>

Simple(op, r) ==
    /\ call' = Record(op, "", "", "", None, "", 0, active, r)
    /\ artifacts' = artifacts \cup r.written
    /\ Called

\* driver.get() also leaves the driver in the new page's top-level context.
Open ==
    /\ CanCall
    /\ \E url \in Urls, out \in DriverOutcomes :
         /\ Simple("open", open(url, out))
         /\ frame' = IF out = "ok" THEN "top" ELSE frame
    /\ UNCHANGED <<self_timeout, windows, active>>

SwitchToFrame ==
    /\ CanCall
    /\ \E id \in Frames, out \in {"ok", "NoSuchFrameException"} :
         /\ Simple("switch_to_frame", switch_to_frame(id, out))
         /\ frame' = IF out = "ok" THEN id ELSE frame
    /\ UNCHANGED <<self_timeout, windows, active>>

ClearCookies ==
    /\ CanCall
    /\ \E out \in DriverOutcomes : Simple("clear_cookies", clear_cookies(out))
    /\ UNCHANGED <<self_timeout, windows, active, frame>>

TakeScreenshot ==
    /\ CanCall
    /\ \E name \in ShotNames, shot \in Shots :
         Simple("save_screenshot", SaveScreenshot(name, shot))
    /\ UNCHANGED <<self_timeout, windows, active, frame>>

SwitchToWindow ==
    /\ CanCall
    /\ \E title \in TitleArgs, plan \in WindowPlans :
         LET w == switch_to_window(title, windows, active, plan)
             r == Result(NoFind, w.outcome, "None", "none", w.exc, w.log,
                         w.faults)
         IN  /\ call' = Record("switch_to_window", "", "", "", None, title,
                               0, active, r)
             /\ active' = w.active
    /\ Called
    /\ UNCHANGED <<self_timeout, windows, frame, artifacts>>

\* The caller is done with the result and goes on to its next call.
Return ==
    /\ pc = "returned"
    /\ pc' = "idle"
    /\ call' = Idle
    /\ UNCHANGED <<self_timeout, windows, active, frame, artifacts, ncalls>>

Next ==
    \/ Open
    \/ FindElement
    \/ ClickElement
    \/ InputText
    \/ HoverElement
    \/ GetElementText
    \/ IsElementPresent
    \/ SwitchToFrame
    \/ SwitchToWindow
    \/ ClearCookies
    \/ TakeScreenshot
    \/ Return

Spec == Init /\ [][Next]_vars

\* The window and context methods alone, over every arrangement of up to
\* MaxWindows windows.
InitWindows ==
    /\ self_timeout = DefaultTimeout
    /\ windows \in UNION {[1..n -> Titles] : n \in 1..MaxWindows}
    /\ active \in 1..Len(windows)
    /\ frame = "top"
    /\ artifacts = {}
    /\ ncalls = 0
    /\ pc = "idle"
    /\ call = Idle

NextWindows ==
    \/ Open
    \/ SwitchToFrame
    \/ SwitchToWindow
    \/ ClearCookies
    \/ Return

SpecWindows == InitWindows /\ [][NextWindows]_vars

\* ============================================================== claims
ReturnedBy(op) == pc = "returned" /\ call.op = op

ReturnedFrom(ops) == pc = "returned" /\ call.op \in ops

\* The strategy names the documentation lists.
Recognized == {"id", "name", "tag", "class", "link", "plink", "css", "xpath"}

Commands(name) == SelectSeq(call.log, LAMBDA c : c.cmd = name)

Raised(kind) == call.outcome = "raise" /\ call.exc.kind = kind

NoDriverFault == call.faults = <<>>

ElementCommands ==
    SelectSeq(call.log, LAMBDA c :
        c.cmd \in {"click", "clear", "send_keys", "perform", "text"})

\* C1: a method called with one of the eight strategy names never raises
\* ValueError; called with any other name it raises ValueError without a
\* driver command and without writing a file.
C1_StrategyNames ==
    ReturnedFrom(ElementOps) =>
        /\ call.type \in Recognized => ~Raised("ValueError")
        /\ call.type \notin Recognized =>
              /\ Raised("ValueError")
              /\ call.log = <<>>
              /\ call.written = {}

C1_Witness ==
    /\ ReturnedBy("is_element_present")
    /\ call.type = "ID"
    /\ Raised("ValueError")
    /\ artifacts # {}

\* C2, as stated: is_element_present never raises TimeoutException, returns
\* True when find_element succeeds and False when the presence wait times
\* out, and every other exception of find_element (a driver fault, the
\* ValueError, a NoSuchElementException, any exception of save_screenshot)
\* reaches the caller.
C2_Original ==
    ReturnedBy("is_element_present") =>
        /\ ~Raised("TimeoutException")
        /\ call.resolve = "found" => call.outcome = "return" /\ call.ret = "True"
        /\ (call.fexc.kind = "TimeoutException"
                /\ call.fexc.site # "save_screenshot") =>
              call.outcome = "return" /\ call.ret = "False"
        /\ (call.fexc # NoExc
                /\ (call.fexc.kind # "TimeoutException"
                        \/ call.fexc.site = "save_screenshot")) =>
              call.outcome = "raise" /\ call.exc = call.fexc

\* C2, amended: is_element_present raises neither TimeoutException nor
\* NoSuchElementException; it returns True when find_element succeeds,
\* False whenever find_element ends with an exception of one of these two
\* classes, save_screenshot's included, and every other exception of
\* find_element reaches the caller.
C2_Amended ==
    ReturnedBy("is_element_present") =>
        /\ ~Raised("TimeoutException")
        /\ ~Raised("NoSuchElementException")
        /\ call.resolve = "found" => call.outcome = "return" /\ call.ret = "True"
        /\ call.fexc.kind \in {"TimeoutException", "NoSuchElementException"} =>
              call.outcome = "return" /\ call.ret = "False"
        /\ (call.fexc # NoExc
                /\ call.fexc.kind \notin {"TimeoutException",
                                          "NoSuchElementException"}) =>
              call.outcome = "raise" /\ call.exc = call.fexc

C2_Witness ==
    /\ ReturnedBy("is_element_present")
    /\ call.fexc = Exc("NoSuchElementException", "save_screenshot")
    /\ call.ret = "False"

\* The presence wait ended by its own timeout, the driver having answered
\* every poll.
PresenceWaitRanOut ==
    /\ call.resolve = "timeout"
    /\ \A i \in 1..Len(call.faults) : call.faults[i].site # "find_element"

\* C3: when the presence wait of find_element times out, one screenshot
\* named element_not_found_<strategy>_<value>.png is taken and the call
\* raises the TimeoutException, whatever save_screenshot does.
C3_TimeoutRaisesTimeout ==
    (ReturnedBy("find_element") /\ call.type \in Recognized
        /\ PresenceWaitRanOut) =>
        /\ Commands("save_screenshot") =
              <<Cmd("save_screenshot",
                    "../data/result_pics/element_not_found_" \o call.type
                        \o "_" \o call.value \o ".png", 0)>>
        /\ Raised("TimeoutException")
        /\ call.exc.site # "save_screenshot"

\* C4, as stated: the files under result_pics change only in a call whose
\* presence wait timed out.
C4_Original ==
    [][artifacts' # artifacts =>
          call'.op \in ElementOps /\ call'.resolve = "timeout"]_vars

\* C4, amended: the files under result_pics change only in a call whose
\* presence wait timed out or in a call of save_screenshot itself; a call
\* that finds its element (click_element's clickable wait failing or not),
\* that is refused for its strategy name or whose wait ends with another
\* driver fault leaves them as they were.
C4_Amended ==
    [][/\ artifacts' # artifacts =>
             \/ call'.op = "save_screenshot"
             \/ call'.op \in ElementOps /\ call'.resolve = "timeout"
       /\ (pc' = "returned" /\ call'.op \in ElementOps
             /\ call'.resolve \in {"found", "unsupported", "fault"}) =>
             artifacts' = artifacts]_vars

C4_Witness ==
    /\ ReturnedBy("click_element")
    /\ call.resolve = "found"
    /\ call.clickable = "timeout"
    /\ artifacts = {"../data/result_pics/element_not_found_id_missing-id.png"}

\* C5: switch_to_window raises its ValueError only with the window active
\* that was active when it was called, and raises it whenever no window
\* has the title and the driver answers every command.
C5_NoMatchRestores ==
    ReturnedBy("switch_to_window") =>
        /\ (Raised("ValueError") /\ call.exc.site = "switch_to_window") =>
              active = call.orig
        /\ ((\A i \in 1..Len(windows) : windows[i] # call.title)
                /\ NoDriverFault) =>
              Raised("ValueError") /\ call.exc.site = "switch_to_window"

C5_Witness ==
    /\ ReturnedBy("switch_to_window")
    /\ Raised("ValueError")
    /\ Len(windows) = 3
    /\ call.orig = 2
    /\ active = 2
    /\ Len(Commands("switch_to.window")) = 4

\* C6: find_element called with timeout 0 does not return an element that
\* is absent at the first poll; called with a timeout T >= 1 it returns the
\* element whenever it appears by a poll of the T time-units and the driver
\* answers every command.
C6_TimeoutMonotone ==
    (ReturnedBy("find_element") /\ call.type \in Recognized) =>
        /\ (call.timeout = 0 /\ call.appearAt > 0) => call.outcome # "return"
        /\ (call.timeout >= 1 /\ call.appearAt < NumPolls(call.timeout)
                /\ NoDriverFault) =>
              call.outcome = "return"

\* C7, as stated: click_element raises TimeoutException exactly when the
\* presence wait timed out, raises ElementNotInteractableException when the
\* element was found and the clickable wait timed out, and sends no click
\* in either case.
C7_Original ==
    ReturnedBy("click_element") =>
        /\ Raised("TimeoutException") <=> call.resolve = "timeout"
        /\ (call.resolve = "found" /\ call.clickable = "timeout") =>
              Raised("ElementNotInteractableException")
        /\ (call.resolve = "timeout" \/ call.clickable = "timeout") =>
              Commands("click") = <<>>

\* C7, amended: click_element raises TimeoutException in both cases: when
\* the presence wait timed out (unless save_screenshot raised, whose
\* exception is then raised) and when the element was found and the
\* clickable wait timed out (without a screenshot); it raises
\* ElementNotInteractableException only when the driver raised it; it sends
\* no click in either timeout case.
C7_Amended ==
    ReturnedBy("click_element") =>
        /\ call.resolve = "timeout" =>
              /\ call.outcome = "raise"
              /\ \/ call.exc.kind = "TimeoutException"
                 \/ call.exc.site = "save_screenshot"
        /\ (call.resolve = "found" /\ call.clickable = "timeout") =>
              /\ Raised("TimeoutException")
              /\ Commands("save_screenshot") = <<>>
              /\ call.written = {}
        /\ Raised("ElementNotInteractableException") =>
              \E i \in 1..Len(call.faults) : call.faults[i] = call.exc
        /\ (call.resolve = "timeout" \/ call.clickable = "timeout") =>
              Commands("click") = <<>>

C7_Witness ==
    /\ ReturnedBy("click_element")
    /\ call.resolve = "found"
    /\ call.clickable = "timeout"
    /\ call.exc = Exc("TimeoutException", "WebDriverWait")

\* C8: a call of any method but is_element_present in which the driver
\* raised ends by raising the exception the driver raised.
C8_FaultsPropagate ==
    (pc = "returned" /\ call.op # "is_element_present"
        /\ call.faults # <<>>) =>
        /\ call.outcome = "raise"
        /\ call.exc = call.faults[1]

\* C9: click_element, input_text, hover_element and get_element_text send
\* element commands only after their own find_element found the element
\* and only to the handle it returned, which the driver handed out in
\* this call; input_text sends clear and then send_keys with the text as
\* it was given.
C9_FreshHandle ==
    ReturnedFrom({"click_element", "input_text", "hover_element",
                  "get_element_text"}) =>
        /\ call.resolve # "found" => ElementCommands = <<>>
        /\ \A i \in 1..Len(ElementCommands) :
              /\ ElementCommands[i].h = call.handle
              /\ ElementCommands[i].h = ncalls
        /\ call.op = "input_text" =>
              /\ Len(ElementCommands) <= 2
              /\ Len(ElementCommands) >= 1 =>
                    ElementCommands[1] = Cmd("clear", "", call.handle)
              /\ Len(ElementCommands) = 2 =>
                    ElementCommands[2] = Cmd("send_keys", call.text, call.handle)
              /\ call.outcome = "return" => Len(ElementCommands) = 2

C9_Witness ==
    /\ ReturnedBy("input_text")
    /\ call.outcome = "return"
    /\ ncalls = 2
    /\ call.handle = 2
    /\ Len(ElementCommands) = 2

FirstMatch(title) ==
    CHOOSE i \in 1..Len(windows) :
        /\ windows[i] = title
        /\ \A j \in 1..(i - 1) : windows[j] # title

\* C10: when a window has the title and the driver answers every command,
\* switch_to_window returns with the first such window in handle order
\* active, having switched into the windows up to it, each once and in
\* handle order, and into no other; it does not switch back.
C10_FirstMatch ==
    (ReturnedBy("switch_to_window")
        /\ (\E i \in 1..Len(windows) : windows[i] = call.title)
        /\ NoDriverFault) =>
        /\ call.outcome = "return"
        /\ active = FirstMatch(call.title)
        /\ Commands("switch_to.window") =
              [i \in 1..FirstMatch(call.title) |->
                  Cmd("switch_to.window", "", i)]

C10_Witness ==
    /\ ReturnedBy("switch_to_window")
    /\ call.outcome = "return"
    /\ windows = <<"B", "A", "A">>
    /\ call.title = "A"
    /\ call.orig = 3
    /\ active = 2

====
